---- MODULE Spec2Model ----
(***************************************************************************)
(* Genetic optimizer of influx-crypto-trader (src/src/indicators/ema.ts,   *)
(* lines 29-457): gene sampling, fitness, de-duplication ranking,          *)
(* breeding, and the generational loop Optimizer.genetic with its          *)
(* promise queue.                                                          *)
(*                                                                         *)
(* Numbers.  Fitness values are kept in units of 1/Unit, gene values in    *)
(* ticks of 1/Tick; an aggregate fitness (a mean) is kept as the exact     *)
(* fraction <<sum, count>>.                                                *)
(*                                                                         *)
(* Specifications.  SpecRank applies the ranking to bounded lists;         *)
(* SpecGenes makes and breeds generations over bounded gene spaces; Spec   *)
(* is the run of Optimizer.genetic with its tasks interleaved, SpecFair    *)
(* the same with the tasks and the loop never starved.  TraderWorkerBase   *)
(* and the engine it drives are outside the file: init, start and stop     *)
(* are calls that return or throw, the engine's status after a throw is    *)
(* any, and a worker keeps the config object it is constructed with.       *)
(***************************************************************************)
EXTENDS Integers, Sequences, FiniteSets, TLC

VARIABLES
    opts,       \* GeneticOpts plus the run's traderConfig (name, stratOpts)
    pc,         \* where Optimizer.genetic stands
    gen,        \* let gen (line 343)
    generation, \* let generation (line 345): sequence of TraderWorker, <<>> while undefined
    tasks,      \* the promises added to the queues: <<gen, name>> -> [pc, i, flush]
    waiting,    \* Optimizer.pqueue: ids of the tasks not started yet, in add order
    envBacktest,\* traderConfig.env.backtest (lines 365, 194): 1-based index in opts.envs, 0 before any write
    calls,      \* names whose engine got init/start/stop since the generation was built
    trials,     \* what each trial of each individual gave: name -> sequence of [env, threw, outcome]
    checkpoints,\* the genN.json files written (lines 424-438), in order
    elites,     \* the first opts.elitism individuals of the last ranking, as they were
    built,      \* number of populations built
    stopRequested, \* names t.stop() was called on by the catch of line 441
    raised,     \* errors thrown to the caller of Optimizer.genetic
    logged,     \* stop errors given to logger.error by line 441
    rankList,   \* SpecRank: the list the ranking is applied to, then its result
    rankPrev,   \* SpecRank: the list before the last application
    rankCount,  \* SpecRank: number of applications so far
    fit,        \* SpecFitness: two trials' inputs and the fitness computed for each
    tour,       \* SpecTournament: the locals of one call of tournamentSelection
    cross       \* SpecCrossover: the arguments of one call of crossover and the child's stratOpts

rankVars == <<rankList, rankPrev, rankCount>>

pureVars == <<fit, tour, cross>>

breedVars == <<opts, pc, gen, generation>>

poolVars == <<tasks, waiting, envBacktest, calls, trials>>

loopVars == <<checkpoints, elites, built, stopRequested, raised, logged>>

runVars == <<poolVars, loopVars>>

vars == <<opts, pc, gen, generation, runVars, rankVars, pureVars>>

(* no run of Optimizer.genetic has touched the pool or the loop's outputs *)
RunUntouched ==
    /\ tasks = <<>> /\ waiting = <<>> /\ envBacktest = 0 /\ calls = {}
    /\ trials = <<>> /\ checkpoints = <<>> /\ elites = <<>> /\ built = 0
    /\ stopRequested = {} /\ raised = <<>> /\ logged = {}

(* no pure function has been applied on its own *)
PureUntouched == fit = <<>> /\ tour = <<>> /\ cross = <<>>

----------------------------------------------------------------------------
(* Bounds *)

MaxRankLen == 5      \* longest generation the ranking is applied to
MaxRerank == 2       \* applications of the ranking to one list
MaxBreedGen == 2     \* SpecGenes: generations bred after the first
Tick == 2            \* gene values are kept in ticks of 1/Tick

(* Fitness unit: 0.5 * x and x / 4 (line 202) stay exact in quarters. *)
Unit == 2 * 2

----------------------------------------------------------------------------
(* Sequences helpers *)

Range(s) == {s[i] : i \in DOMAIN s}

Min2(a, b) == IF a < b THEN a ELSE b

Max2(a, b) == IF a > b THEN a ELSE b

(* Array.prototype.splice(start, 0, x): insert x so that it gets 0-based   *)
(* index start; a start beyond the end appends.                            *)
Splice(s, start, x) ==
    LET at == Min2(start, Len(s))
    IN  SubSeq(s, 1, at) \o <<x>> \o SubSeq(s, at + 1, Len(s))

----------------------------------------------------------------------------
(* Fitness records and aggregate fitness *)

FitnessKeys == {"currentProfit", "percentTradeWin", "sharpeRatio", "tradeFrequency", "total"}

(* The record pushed when a trial throws (lines 379-385): every field -1. *)
SentinelFitness == [k \in FitnessKeys |-> -Unit]

RECURSIVE SumKey(_, _)
SumKey(fs, key) == IF fs = <<>> THEN 0 ELSE fs[1][key] + SumKey(Tail(fs), key)

(* getFitness (lines 155-168): the mean of one key over the records, as    *)
(* the fraction <<sum, count>>.                                            *)
getFitness(trader, key) == <<SumKey(trader.fitnesses, key), Len(trader.fitnesses)>>

FracLess(p, q) == p[1] * q[2] < q[1] * p[2]

FracEq(p, q) == p[1] * q[2] = q[1] * p[2]

FracLeq(p, q) == p[1] * q[2] <= q[1] * p[2]

total(trader) == getFitness(trader, "total")

----------------------------------------------------------------------------
(* generation.sort((a, b) => getFitness(b) - getFitness(a)), lines 266 and *)
(* 402: descending, stable (ECMAScript 2019).                              *)

(* mutant: a comparator that also moves t before an equal element *)
SortsBeforeOrEqual(t, h) == FracLeq(total(h), total(t))

(* t is placed before h exactly when the comparator is negative for (t, h) *)
SortsBefore(t, h) == FracLess(total(h), total(t))

RECURSIVE InsertSorted(_, _)
InsertSorted(t, s) ==
    IF s = <<>> THEN <<t>>
    ELSE IF SortsBefore(t, Head(s)) THEN <<t>> \o s
    ELSE <<Head(s)>> \o InsertSorted(t, Tail(s))

(* the list left as it is *)
sortNothing(g) == g

RECURSIVE sortByFitness(_)
sortByFitness(g) ==
    IF g = <<>> THEN <<>>
    ELSE InsertSorted(g[Len(g)], sortByFitness(SubSeq(g, 1, Len(g) - 1)))

----------------------------------------------------------------------------
(* De-duplication ranking, breedNewGeneration lines 265-280 *)

(* mutant: the insertion cursor is not advanced *)
NextCursorStuck(currentIdx) == currentIdx

(* currentIdx++ (line 277) *)
NextCursor(currentIdx) == currentIdx + 1

(* generation.forEach((indiv, idx) => ...) from 0-based index idx on, with *)
(* the rebuilt list acc and the cursor currentIdx.                         *)
RECURSIVE ResortFrom(_, _, _, _)
ResortFrom(g, idx, acc, currentIdx) ==
    IF idx >= Len(g) THEN acc
    ELSE LET indiv == g[idx + 1]
         IN  IF idx = 0
             THEN ResortFrom(g, idx + 1, Append(acc, indiv), currentIdx)
             ELSE IF FracEq(total(indiv), total(g[idx]))
             THEN ResortFrom(g, idx + 1, Append(acc, indiv), currentIdx)
             ELSE ResortFrom(g, idx + 1, Splice(acc, currentIdx, indiv),
                             NextCursor(currentIdx))

generationResort(g) == ResortFrom(sortByFitness(g), 0, <<>>, 1)

----------------------------------------------------------------------------
(* Individuals *)

(* a new worker that counts as run already *)
createTraderWorkerRun(name, stratOpts) ==
    [name |-> name, stratOpts |-> stratOpts, fitnesses |-> <<>>, hasRunned |-> TRUE]

(* createTraderWorker (lines 75-93): a new worker, hasRunned false, no     *)
(* fitnesses yet.                                                          *)
createTraderWorker(name, stratOpts) ==
    [name |-> name, stratOpts |-> stratOpts, fitnesses |-> <<>>, hasRunned |-> FALSE]

----------------------------------------------------------------------------
(* Genes: [key, min, max, integer, list]; list = <<>> when the gene has    *)
(* none; min and max in ticks.                                             *)

(* Math.floor of a value in ticks *)
FloorUnit(v) == (v \div Tick) * Tick

(* randomBetween (lines 70-73), the values Math.random() in [0, 1) gives:  *)
(* floor of [min, max + 1) when integer, else [min, max).                  *)
randomBetween(min, max, integer) ==
    IF integer THEN {FloorUnit(v) : v \in min..(max + Tick - 1)}
    ELSE IF min = max THEN {min} ELSE min..(max - 1)

(* g.list[randomBetween(0, g.list.length - 1, true)] (lines 99, 220, 243) *)
randomListValue(g) ==
    {g.list[(v \div Tick) + 1] : v \in randomBetween(0, (Len(g.list) - 1) * Tick, TRUE)}

(* the value randomIndiv gives a gene (lines 98-102) *)
sampleGene(g) ==
    IF g.list # <<>> THEN randomListValue(g) ELSE randomBetween(g.min, g.max, g.integer)

(* randomBetween(0, 1) <= opts.mutationRate (lines 217, 250), the rate in  *)
(* percent: the outcomes the draw can have.                                *)
MutationDraws(rate) ==
    IF rate >= 100 THEN {TRUE} ELSE IF rate < 0 THEN {FALSE} ELSE {TRUE, FALSE}

(* mutant: no clamp *)
ClampNone(v, min, max) == v

(* newVal < g.min ? g.min : newVal > g.max ? g.max : newVal (line 229) *)
Clamp(v, min, max) == IF v < min THEN min ELSE IF v > max THEN max ELSE v

(* range * randomBetween(0.005, 0.5) (line 227): the magnitudes on the     *)
(* tick grid.                                                              *)
MutationOffsets(range) == {d \in 0..range : 200 * d >= range /\ 2 * d <= range}

(* a numeric gene mutated from oldVal (lines 225-230) *)
mutateNumeric(g, oldVal) ==
    { IF g.integer THEN FloorUnit(Clamp(oldVal + direction * d, g.min, g.max))
                   ELSE Clamp(oldVal + direction * d, g.min, g.max) :
        direction \in {-1, 1}, d \in MutationOffsets(g.max - g.min) }

(* the stratOpts got from base by giving gene i .. Len(genes) one of the   *)
(* values choices[i] (gene keys are distinct)                              *)
RECURSIVE OptsFrom(_, _, _, _)
OptsFrom(base, genes, i, choices) ==
    IF i > Len(genes) THEN {base}
    ELSE UNION { OptsFrom([base EXCEPT ![genes[i].key] = v], genes, i + 1, choices) :
                   v \in choices[i] }

(* randomIndiv (lines 95-105) *)
randomIndivOpts(stratOpts, genes) ==
    OptsFrom(stratOpts, genes, 1, [i \in DOMAIN genes |-> sampleGene(genes[i])])

(* one gene of mutate (lines 216-232) *)
mutateGene(g, cur, rate) ==
    UNION { IF m THEN (IF g.list # <<>> THEN randomListValue(g) ELSE mutateNumeric(g, cur))
                 ELSE {cur} : m \in MutationDraws(rate) }

(* mutate (lines 206-235) *)
mutateOpts(trader, genes, rate) ==
    OptsFrom(trader.stratOpts, genes, 1,
             [i \in DOMAIN genes |-> mutateGene(genes[i], trader.stratOpts[genes[i].key], rate)])

(* one gene of crossover's first pass (lines 241-246): traderB's value, or *)
(* traderA's (a list gene is re-sampled instead)                           *)
crossoverGene(g, a, b) ==
    {b} \cup (IF g.list # <<>> THEN randomListValue(g) ELSE {a})

(* one gene of crossover's second pass (lines 249-254) *)
crossoverMutateGene(g, cur, rate) ==
    UNION { IF m THEN sampleGene(g) ELSE {cur} : m \in MutationDraws(rate) }

(* crossover (lines 237-257): traderB's genes, some taken from traderA,    *)
(* then with a 25% chance the second pass.                                 *)
crossoverOpts(traderA, traderB, genes, rate) ==
    LET taken == OptsFrom(traderB.stratOpts, genes, 1,
                    [i \in DOMAIN genes |->
                        crossoverGene(genes[i], traderA.stratOpts[genes[i].key],
                                      traderB.stratOpts[genes[i].key])])
    IN  taken \cup
        UNION { OptsFrom(o, genes, 1,
                    [i \in DOMAIN genes |-> crossoverMutateGene(genes[i], o[genes[i].key], rate)]) :
                  o \in taken }

(* tournamentSelection (lines 107-125) for the participants accepted at    *)
(* 1-based indexes picks: the two best, sorted descending.                 *)
tournamentSelection(g, picks) ==
    SubSeq(sortByFitness([i \in DOMAIN picks |-> g[picks[i]]]), 1, 2)

Participants == 4

(* the pairs [t1, t2] line 293 can get from the ranked generation g *)
parentPairs(g) ==
    {tournamentSelection(g, picks) : picks \in [1..Participants -> DOMAIN g]}

(* the stratOpts one pass of the while loop of lines 288-306 can give the  *)
(* next individual, from the ranked generation g                           *)
childOpts(g, o) ==
    UNION { crossoverOpts(p[1], p[2], o.genes, o.mutationRate) : p \in parentPairs(g) }
    \cup UNION { mutateOpts(g[i], o.genes, o.mutationRate) : i \in DOMAIN g }
    \cup randomIndivOpts(o.stratOpts, o.genes)

(* breedNewGeneration (lines 259-308): the generations it can return *)
breedNewGeneration(g, o, gn) ==
    LET ranked == generationResort(g)
        bestIndivs == SubSeq(ranked, 1, Min2(o.elitism, Len(ranked)))
        e == Len(bestIndivs)
        m == Max2(o.popSize - e, 0)
        children == childOpts(ranked, o)
    IN  { bestIndivs \o [j \in 1..m |-> createTraderWorker(<<gn, e + j - 1>>, c[j])] :
            c \in [1..m -> children] }

(* makeGeneration (lines 310-330): the generations it can return *)
makeGeneration(o, gn) ==
    LET sampled == randomIndivOpts(o.stratOpts, o.genes)
    IN  IF o.popSize = 0 THEN {<<>>}
        ELSE { <<createTraderWorker(<<gn, 0>>, o.stratOpts)>>
               \o [j \in 1..(o.popSize - 1) |-> createTraderWorker(<<gn, j>>, c[j])] :
                 c \in [1..(o.popSize - 1) -> sampled] }

----------------------------------------------------------------------------
(* SpecRank: the ranking applied to bounded lists *)

FitRec(t) == [k \in FitnessKeys |-> IF k = "total" THEN t ELSE 0]

(* fitness histories the lists are drawn from; <<-1, 1>> ties with <<0>> *)
RankFitnesses ==
    { <<FitRec(-Unit)>>, <<FitRec(0)>>, <<FitRec(Unit)>>, <<FitRec(-Unit), FitRec(Unit)>> }

RankIndiv(i, fs) ==
    [createTraderWorker(<<0, i>>, [x |-> 0]) EXCEPT !.fitnesses = fs, !.hasRunned = TRUE]

InitRank ==
    /\ \E n \in 1..MaxRankLen : \E f \in [1..n -> RankFitnesses] :
          rankList = [i \in 1..n |-> RankIndiv(i - 1, f[i])]
    /\ rankPrev = <<>>
    /\ rankCount = 0
    /\ opts = [popSize |-> 0] /\ pc = "rank-only" /\ gen = 0 /\ generation = <<>>
    /\ RunUntouched
    /\ PureUntouched

ApplyRanking ==
    /\ rankCount < MaxRerank
    /\ rankPrev' = rankList
    /\ rankList' = generationResort(rankList)
    /\ rankCount' = rankCount + 1
    /\ UNCHANGED <<breedVars, runVars, pureVars>>

NextRank == ApplyRanking

SpecRank == InitRank /\ [][NextRank]_vars

----------------------------------------------------------------------------
(* Claims about the ranking (SpecRank) *)

PosIn(s, name) == CHOOSE i \in DOMAIN s : s[i].name = name

(* input positions holding the first individual of a fitness value *)
FirstOfValue(s) ==
    {i \in DOMAIN s : \A j \in 1..(i - 1) : ~FracEq(total(s[j]), total(s[i]))}

(* values shared by at least two individuals *)
TiedFirsts(s) ==
    {i \in FirstOfValue(s) : \E j \in DOMAIN s : j # i /\ FracEq(total(s[j]), total(s[i]))}

(* C8: the rebuilt list is a permutation of the generation; the first      *)
(* individual of each distinct aggregate fitness comes first, these in     *)
(* strictly descending fitness; then the remaining tied individuals in     *)
(* their sorted order (descending, ties in input order); the top-sorted    *)
(* individual is at index 0.                                               *)
C8_RankingShape ==
    rankCount >= 1 =>
        LET in == rankPrev
            out == rankList
            n == Len(in)
            K == Cardinality(FirstOfValue(in))
        IN  /\ Len(out) = n
            /\ Range(out) = Range(in)
            /\ \A j \in 1..K : PosIn(in, out[j].name) \in FirstOfValue(in)
            /\ \A j \in 1..(K - 1) : FracLess(total(out[j + 1]), total(out[j]))
            /\ \A j \in (K + 1)..n : \A k \in (j + 1)..n :
                  \/ FracLess(total(out[k]), total(out[j]))
                  \/ /\ FracEq(total(out[k]), total(out[j]))
                     /\ PosIn(in, out[j].name) < PosIn(in, out[k].name)
            /\ \A i \in 1..n : FracLeq(total(in[i]), total(out[1]))
            /\ \A i \in 1..n : FracEq(total(in[i]), total(out[1]))
                  => PosIn(in, out[1].name) <= i

(* a ranked list with two tied clusters in which the rebuild moved a       *)
(* unique-fitness individual in front of a tied one                        *)
C8_Witness ==
    /\ rankCount = 1
    /\ Cardinality(TiedFirsts(rankPrev)) >= 2
    /\ rankList # sortByFitness(rankPrev)

(* C9: ranking an already ranked list leaves its order unchanged *)
C9_RankingIdempotent == rankCount >= 2 => rankList = rankPrev

(* a second application to a ranked list with several tied clusters, whose *)
(* first application had reordered the input                               *)
C9_Witness ==
    /\ rankCount = 2
    /\ Cardinality(TiedFirsts(rankList)) >= 2
    /\ rankList # sortByFitness(rankList)

----------------------------------------------------------------------------
(* SpecGenes: makeGeneration and breedNewGeneration over bounded gene      *)
(* spaces and baselines; the trials are replaced by a draw of each new     *)
(* individual's fitness.                                                   *)

NumGene(key, min, max, integer) ==
    [key |-> key, min |-> min, max |-> max, integer |-> integer, list |-> <<>>]

ListGene(key, list) ==
    [key |-> key, min |-> 0, max |-> 0, integer |-> FALSE, list |-> list]

(* an integer gene 0..1 with a list gene; a continuous gene 0..1 *)
GenesIntList == <<NumGene("x", 0, Tick, TRUE), ListGene("m", <<"a", "b">>)>>

GenesReal == <<NumGene("y", 0, Tick, FALSE)>>

(* gene spaces with the baselines a run is started with: inside the gene   *)
(* domains, and outside (out of range, not in the list)                    *)
GeneSetups ==
    { [genes |-> GenesIntList, stratOpts |-> b] :
        b \in { [x |-> 0, m |-> "a"], [x |-> 3 * Tick, m |-> "zz"] } }
    \cup { [genes |-> GenesReal, stratOpts |-> b] : b \in { [y |-> 1], [y |-> -1] } }

GenesPopSize == 2

InitGenes ==
    /\ \E s \in GeneSetups : \E e \in 0..1 : \E r \in {50} :
          opts = [popSize |-> GenesPopSize, elitism |-> e, mutationRate |-> r,
                  genes |-> s.genes, stratOpts |-> s.stratOpts]
    /\ pc = "genes-make"
    /\ gen = 0
    /\ generation = <<>>
    /\ rankList = <<>> /\ rankPrev = <<>> /\ rankCount = 0
    /\ RunUntouched
    /\ PureUntouched

GenesMake ==
    /\ pc = "genes-make"
    /\ generation' \in makeGeneration(opts, gen)
    /\ pc' = "genes-assess"
    /\ UNCHANGED <<opts, gen, rankVars, runVars, pureVars>>

(* every individual without a fitness gets one: at most one of them the    *)
(* higher                                                                  *)
GenesAssess ==
    /\ pc = "genes-assess"
    /\ LET new == {i \in DOMAIN generation : generation[i].fitnesses = <<>>}
       IN  \E best \in new \cup {0} :
              generation' = [i \in DOMAIN generation |->
                  IF i \in new
                  THEN [generation[i] EXCEPT
                          !.fitnesses = <<FitRec(IF i = best THEN Unit ELSE 0)>>,
                          !.hasRunned = TRUE]
                  ELSE generation[i]]
    /\ pc' = "genes-breed"
    /\ UNCHANGED <<opts, gen, rankVars, runVars, pureVars>>

GenesBreed ==
    /\ pc = "genes-breed"
    /\ gen < MaxBreedGen
    /\ generation' \in breedNewGeneration(generation, opts, gen + 1)
    /\ gen' = gen + 1
    /\ pc' = "genes-assess"
    /\ UNCHANGED <<opts, rankVars, runVars, pureVars>>

NextGenes == GenesMake \/ GenesAssess \/ GenesBreed

SpecGenes == InitGenes /\ [][NextGenes]_vars

----------------------------------------------------------------------------
(* Claims about the gene domains (SpecGenes) *)

InDomain(g, v) ==
    IF g.list # <<>> THEN v \in Range(g.list)
    ELSE v >= g.min /\ v <= g.max /\ (g.integer => v % Tick = 0)

GenomeInDomain(stratOpts, genes) ==
    \A i \in DOMAIN genes : InDomain(genes[i], stratOpts[genes[i].key])

(* the baseline individual is generation 0's individual 0 (line 315-323) *)
IsBaselineIndiv(t) == t.name = <<0, 0>>

(* C7 as claimed: whatever the baseline, every individual produced by      *)
(* sampling, mutation or crossover has every gene value in its domain      *)
(* (in the list; in [min, max] and integral when integer is set).          *)
C7_DomainAnyBaseline ==
    \A i \in DOMAIN generation :
        ~IsBaselineIndiv(generation[i])
            => GenomeInDomain(generation[i].stratOpts, opts.genes)

(* C7 amended: when the baseline genome lies in the gene domains (the      *)
(* integer genes having integral bounds), every individual of every        *)
(* generation has every gene value in its domain.                          *)
C7_DomainFromValidBaseline ==
    GenomeInDomain(opts.stratOpts, opts.genes)
        => \A i \in DOMAIN generation :
              GenomeInDomain(generation[i].stratOpts, opts.genes)

(* a bred generation, from a valid baseline, holding a bred individual     *)
(* whose genome differs from the baseline's                                *)
C7_Witness ==
    /\ pc = "genes-assess" /\ gen >= 1
    /\ GenomeInDomain(opts.stratOpts, opts.genes)
    /\ \E i \in DOMAIN generation :
          /\ generation[i].name[1] = gen
          /\ generation[i].stratOpts # opts.stratOpts

----------------------------------------------------------------------------
(* Fitness of one trial *)

(* daysBetween (lines 450-457) of two dates given as day numbers *)
daysBetween(date1, date2) == date2 - date1

(* What the engine holds after a trial, as calcFitness reads it:           *)
(* currentProfit in units (0 for 0 or undefined), the length of            *)
(* tradeHistory, the number of its trades with orderProfit > 0.002, and    *)
(* the value of calcSharpeRatio(tradeHistory) in units.                    *)
TrialOutcome(profit, n, wins, sharpe) ==
    [currentProfit |-> profit, trades |-> n, wins |-> wins, sharpe |-> sharpe]

(* no trade; one winning trade *)
Outcomes ==
    { TrialOutcome(0, 0, 0, 0),
      TrialOutcome(Unit, 1, 1, 0) }

(* line 185: a currentProfit of 0 (or undefined) counts as 1 *)
ForceProfitUp(currentProfit) == IF currentProfit = 0 THEN Unit ELSE currentProfit

(* line 185: a currentProfit of 0 (or undefined) counts as -1 *)
ForceProfit(currentProfit) == IF currentProfit = 0 THEN -Unit ELSE currentProfit

(* lines 185, 191 and 196-203: the record made of the reported             *)
(* currentProfit, percentTradeWin, the sharpeRatio of line 190 and         *)
(* tradeFrequency                                                          *)
FitnessFrom(currentProfit, percentTradeWin, sharpeRaw, tradeFrequency) ==
    LET forced == ForceProfit(currentProfit)
        sharpeRatio == Clamp(sharpeRaw, 0, 4 * Unit)
    IN  [currentProfit |-> forced,
         percentTradeWin |-> percentTradeWin,
         sharpeRatio |-> sharpeRatio,
         tradeFrequency |-> tradeFrequency,
         total |-> forced + percentTradeWin \div 2
                     + tradeFrequency \div 2 + sharpeRatio \div 4]

(* calcFitness (lines 182-204) for the engine results outcome and the      *)
(* window backtest = trader.config.env.backtest read at line 194           *)
calcFitness(outcome, backtest) ==
    LET percentTradeWin ==
            IF outcome.trades > 0 THEN (outcome.wins * Unit) \div outcome.trades ELSE 0
        sharpeRaw == IF outcome.trades > 1 THEN outcome.sharpe ELSE 0
        limit == daysBetween(backtest.start, backtest.stop) \div 14
        tradeFrequency ==
            IF outcome.trades > limit THEN Unit
            ELSE (outcome.trades * Unit) \div limit
    IN  FitnessFrom(outcome.currentProfit, percentTradeWin, sharpeRaw, tradeFrequency)

----------------------------------------------------------------------------
(* The pool: the PQueue of Optimizer.getQueue and the task of lines        *)
(* 359-390.  A task is identified by <<gen, name>>; its pc is "waiting",   *)
(* "skip" (started for an individual that has run), "init", "start",       *)
(* "stop" (awaiting that call for environment i), "failstop" (awaiting     *)
(* the stop of line 386), "resolved" or "rejected"; flush is the           *)
(* t.config.flush the task last set (line 366).                            *)

ExecutingPcs == {"skip", "init", "start", "stop", "failstop"}

SettledPcs == {"resolved", "rejected"}

Executing == {id \in DOMAIN tasks : tasks[id].pc \in ExecutingPcs}

(* the tasks a queue counts as pending: started and not settled *)
Pending(g) == {id \in Executing : id[1] = g}

(* pqueue.onIdle() (line 398) resolves: nothing waits, nothing is pending  *)
PoolQueueEmpty == waiting = <<>>

PoolIdle == waiting = <<>> /\ Executing = {}

(* a PQueue of the given concurrency starts its next task *)
CanStartUnbounded(pending, concurrency) == TRUE

CanStart(pending, concurrency) == pending < concurrency

(* position of the individual called name in generation g, 0 if dropped *)
IndexOf(g, name) ==
    IF \E i \in DOMAIN g : g[i].name = name
    THEN CHOOSE i \in DOMAIN g : g[i].name = name
    ELSE 0

(* line 362: the trials run unless the individual has already run *)
ShouldSimulateAlways(t) == TRUE

ShouldSimulate(t) == t.hasRunned # TRUE

(* the task function starts for individual t (lines 359-367): up to the    *)
(* first await, or to resolve() when the individual has run                *)
StartedTask(t) ==
    IF ShouldSimulate(t) THEN [pc |-> "init", i |-> 1, flush |-> TRUE]
    ELSE [pc |-> "skip", i |-> 0, flush |-> FALSE]

(* t.fitnesses.push (lines 369-370, 378-385) *)
PushFitness(g, name, f) ==
    [k \in DOMAIN g |->
        IF g[k].name = name
        THEN [g[k] EXCEPT !.fitnesses = Append(g[k].fitnesses, f)]
        ELSE g[k]]

(* the catch of lines 376-388 records nothing *)
CatchFitnessNone(g, name) == g

(* the catch of lines 376-388 records the sentinel *)
CatchFitness(g, name) == PushFitness(g, name, SentinelFitness)

(* t.hasRunned = true (line 374) *)
SetHasRunned(g, name) ==
    [k \in DOMAIN g |->
        IF g[k].name = name THEN [g[k] EXCEPT !.hasRunned = TRUE] ELSE g[k]]

(* the trial log with one more trial of name *)
LogTrial(name, env, threw, outcome) ==
    [trials EXCEPT ![name] = Append(@, [env |-> env, threw |-> threw, outcome |-> outcome])]

(* a waiting task is started by its queue *)
TaskStart(id) ==
    /\ waiting # <<>> /\ id = Head(waiting)
    /\ CanStart(Cardinality(Pending(id[1])), opts.threads)
    /\ LET k == IndexOf(generation, id[2])
           started == StartedTask(generation[k])
       IN  /\ tasks' = [tasks EXCEPT ![id] = started]
           /\ envBacktest' = IF started.pc = "init" THEN 1 ELSE envBacktest
           /\ calls' = IF started.pc = "init" THEN calls \cup {id[2]} ELSE calls
    /\ waiting' = Tail(waiting)
    /\ UNCHANGED <<opts, pc, gen, generation, trials, loopVars, rankVars, pureVars>>

(* lines 374-375 were reached at the start: the promise settles *)
TaskSkip(id) ==
    /\ tasks[id].pc = "skip"
    /\ tasks' = [tasks EXCEPT ![id].pc = "resolved"]
    /\ generation' = SetHasRunned(generation, id[2])
    /\ UNCHANGED <<opts, pc, gen, waiting, envBacktest, calls, trials, loopVars, rankVars, pureVars>>

(* await t.init() returns (line 367): t.start() is called *)
InitOk(id) ==
    /\ tasks[id].pc = "init"
    /\ tasks' = [tasks EXCEPT ![id].pc = "start"]
    /\ UNCHANGED <<opts, pc, gen, generation, waiting, envBacktest, calls, trials,
                   loopVars, rankVars, pureVars>>

(* await t.start() returns (line 368): t.stop() is called *)
StartOk(id) ==
    /\ tasks[id].pc = "start"
    /\ tasks' = [tasks EXCEPT ![id].pc = "stop"]
    /\ UNCHANGED <<opts, pc, gen, generation, waiting, envBacktest, calls, trials,
                   loopVars, rankVars, pureVars>>

(* await t.stop() returns (line 369): the fitness of the trial is pushed   *)
(* (lines 370-371), then the next environment is set and initialised      *)
(* (lines 364-367) or the task resolves (lines 374-375)                    *)
StopOk(id) ==
    /\ tasks[id].pc = "stop"
    /\ \E outcome \in Outcomes :
          LET i == tasks[id].i
              f == calcFitness(outcome, opts.envs[envBacktest])
              pushed == PushFitness(generation, id[2], f)
          IN  /\ trials' = LogTrial(id[2], i, FALSE, outcome)
              /\ IF i < Len(opts.envs)
                 THEN /\ generation' = pushed
                      /\ envBacktest' = i + 1
                      /\ tasks' = [tasks EXCEPT ![id] = [pc |-> "init", i |-> i + 1,
                                                      flush |-> FALSE]]
                 ELSE /\ generation' = SetHasRunned(pushed, id[2])
                      /\ envBacktest' = envBacktest
                      /\ tasks' = [tasks EXCEPT ![id].pc = "resolved"]
    /\ UNCHANGED <<opts, pc, gen, waiting, calls, loopVars, rankVars, pureVars>>

(* t.init(), t.start() or t.stop() throws: the catch of lines 376-388      *)
(* pushes the sentinel, then awaits t.stop() when the engine's status is   *)
(* not STOP, and rejects                                                   *)
TrialThrow(id) ==
    /\ tasks[id].pc \in {"init", "start", "stop"}
    /\ generation' = CatchFitness(generation, id[2])
    /\ trials' = LogTrial(id[2], tasks[id].i, TRUE, TrialOutcome(0, 0, 0, 0))
    /\ \E status \in {"STOP", "RUNNING"} :
          tasks' = [tasks EXCEPT ![id].pc =
                        IF status # "STOP" THEN "failstop" ELSE "rejected"]
    /\ UNCHANGED <<opts, pc, gen, waiting, envBacktest, calls, loopVars, rankVars, pureVars>>

(* the t.stop() of line 386 settles (its error logged): reject(error) *)
CatchStopDone(id) ==
    /\ tasks[id].pc = "failstop"
    /\ tasks' = [tasks EXCEPT ![id].pc = "rejected"]
    /\ UNCHANGED <<opts, pc, gen, generation, waiting, envBacktest, calls, trials,
                   loopVars, rankVars, pureVars>>

----------------------------------------------------------------------------
(* The loop of Optimizer.genetic (lines 342-446).  pc is "build" at the    *)
(* loop test, "schedule" once the generation is built, "await" at          *)
(* pqueue.onIdle(), "ranked" once the generation is sorted, then "build"   *)
(* again; "done" when the loop has ended, "failed" when the catch of lines *)
(* 440-444 has thrown.                                                     *)

(* while (gen < opts.generation), line 346 *)
LoopContinuesOneMore(g, n) == g <= n

LoopContinues(g, n) == g < n

(* gen left as it is *)
NextGenStuck(g) == g

(* gen++, line 439 *)
NextGen(g) == g + 1

RECURSIVE FracSum(_)
FracSum(fs) ==
    IF fs = <<>> THEN <<0, 1>>
    ELSE LET rest == FracSum(Tail(fs))
         IN  <<Head(fs)[1] * rest[2] + rest[1] * Head(fs)[2], Head(fs)[2] * rest[2]>>

RECURSIVE FracMin(_)
FracMin(fs) ==
    IF Len(fs) = 1 THEN fs[1]
    ELSE LET rest == FracMin(Tail(fs))
         IN  IF FracLess(rest, Head(fs)) THEN rest ELSE Head(fs)

RECURSIVE FracMax(_)
FracMax(fs) ==
    IF Len(fs) = 1 THEN fs[1]
    ELSE LET rest == FracMax(Tail(fs))
         IN  IF FracLess(Head(fs), rest) THEN rest ELSE Head(fs)

(* the body of genN.json (lines 426-435) for the sorted generation g *)
CheckpointBody(g, gn) ==
    LET fitnesses == [k \in DOMAIN g |-> total(g[k])]
        sum == FracSum(fitnesses)
    IN  [index |-> gn,
         result |-> [mean |-> <<sum[1], sum[2] * Len(g)>>,
                     min |-> FracMin(fitnesses),
                     max |-> FracMax(fitnesses)],
         gen |-> [k \in DOMAIN g |->
                    [name |-> g[k].name, fitness |-> g[k].fitnesses,
                     config |-> g[k].stratOpts]]]

(* the trial log kept for the individuals of generation g *)
TrialsFor(g) ==
    [name \in {g[k].name : k \in DOMAIN g} |->
        IF name \in DOMAIN trials THEN trials[name] ELSE <<>>]

(* lines 348-350: the first generation is made, the next ones are bred *)
BuildGeneration ==
    /\ pc = "build"
    /\ LoopContinues(gen, opts.generation)
    /\ IF generation = <<>>
       THEN /\ generation' \in makeGeneration(opts, gen)
            /\ elites' = <<>>
       ELSE /\ generation' \in breedNewGeneration(generation, opts, gen)
            /\ elites' = SubSeq(generationResort(generation), 1,
                                Min2(opts.elitism, Len(generation)))
    /\ trials' = TrialsFor(generation')
    /\ calls' = {}
    /\ built' = built + 1
    /\ pc' = "schedule"
    /\ UNCHANGED <<opts, gen, tasks, waiting, envBacktest, checkpoints,
                   stopRequested, raised, logged, rankVars, pureVars>>

(* the loop test fails: Optimizer.genetic returns *)
Finish ==
    /\ pc = "build"
    /\ ~LoopContinues(gen, opts.generation)
    /\ pc' = "done"
    /\ UNCHANGED <<opts, gen, generation, runVars, rankVars, pureVars>>

(* lines 352-395 for the first n individuals: getQueue clears the old      *)
(* queue and makes a new one, each task is added, and the queue starts a   *)
(* task as it is added while fewer than opts.threads are pending           *)
AddTasks(n) ==
    LET ids == [k \in 1..n |-> <<gen, generation[k].name>>]
        startedAt == {k \in 1..n : CanStart(k - 1, opts.threads)}
        simulated == {k \in startedAt : ShouldSimulate(generation[k])}
        new == {ids[k] : k \in 1..n}
    IN  /\ tasks' = [id \in Executing \cup new |->
                        IF id \in new
                        THEN LET k == CHOOSE j \in 1..n : ids[j] = id
                             IN  IF k \in startedAt THEN StartedTask(generation[k])
                                 ELSE [pc |-> "waiting", i |-> 0, flush |-> FALSE]
                        ELSE tasks[id]]
        /\ waiting' = SubSeq(ids, Cardinality(startedAt) + 1, n)
        /\ envBacktest' = IF simulated # {} THEN 1 ELSE envBacktest
        /\ calls' = calls \cup {generation[k].name : k \in simulated}

ScheduleGeneration ==
    /\ pc = "schedule"
    /\ AddTasks(Len(generation))
    /\ pc' = "await"
    /\ UNCHANGED <<opts, gen, generation, trials, loopVars, rankVars, pureVars>>

(* pqueue.onIdle() resolves and the generation is sorted (lines 398-402) *)
RankGeneration ==
    /\ pc = "await"
    /\ PoolIdle
    /\ generation' = sortByFitness(generation)
    /\ pc' = "ranked"
    /\ UNCHANGED <<opts, gen, poolVars, loopVars, rankVars, pureVars>>

(* the results are logged and genN.json is written (lines 403-438); gen++ *)
WriteCheckpoint ==
    /\ pc = "ranked"
    /\ checkpoints' = Append(checkpoints, CheckpointBody(generation, gen))
    /\ gen' = NextGen(gen)
    /\ pc' = "build"
    /\ UNCHANGED <<opts, generation, poolVars, elites, built, stopRequested,
                   raised, logged, rankVars, pureVars>>

(* the individuals the catch of line 441 calls stop() on *)
StopTargetsNone(g) == {}

StopTargets(g) == {g[k].name : k \in DOMAIN g}

(* lines 440-444: stop() is called on every individual of generation, its  *)
(* rejections go to logger.error, and one Error is thrown                  *)
CatchFatal(phase) ==
    /\ stopRequested' = StopTargets(generation')
    /\ \E rejecting \in {{}, StopTargets(generation')} : logged' = rejecting
    /\ raised' = Append(raised, [message |-> "Problem during genetic optimization",
                                 phase |-> phase])
    /\ pc' = "failed"

(* makeGeneration or breedNewGeneration throws: generation is unassigned *)
FatalInBuild ==
    /\ pc = "build"
    /\ LoopContinues(gen, opts.generation)
    /\ generation' = generation
    /\ CatchFatal("build")
    /\ UNCHANGED <<opts, gen, poolVars, checkpoints, elites, built, rankVars, pureVars>>

(* getQueue or the add of individual n + 1 throws *)
FatalInSchedule ==
    /\ pc = "schedule"
    /\ \E n \in 0..(Len(generation) - 1) : AddTasks(n)
    /\ generation' = generation
    /\ CatchFatal("schedule")
    /\ UNCHANGED <<opts, gen, trials, checkpoints, elites, built, rankVars, pureVars>>

(* the sort or the logging of lines 402-421 throws *)
FatalInRank ==
    /\ pc = "await"
    /\ PoolIdle
    /\ generation' = generation
    /\ CatchFatal("rank")
    /\ UNCHANGED <<opts, gen, poolVars, checkpoints, elites, built, rankVars, pureVars>>

(* mkdirSync or writeFileSync throws (lines 423-438) *)
FatalInCheckpoint ==
    /\ pc = "ranked"
    /\ generation' = generation
    /\ CatchFatal("checkpoint")
    /\ UNCHANGED <<opts, gen, poolVars, checkpoints, elites, built, rankVars, pureVars>>

----------------------------------------------------------------------------
(* Spec: runs of Optimizer.genetic over bounded configurations *)

MaxThreads == 2      \* largest opts.threads
MaxPopSize == 3      \* largest opts.popSize
MaxGeneration == 2   \* largest opts.generation
MaxEnvs == 2         \* largest opts.envs.length
MaxTrials == 4       \* trials a run can need: generation * popSize * envs.length

(* environment i of opts.envs, as day numbers: window i lasts              *)
(* 14 * (MaxEnvs + 1 - i) days                                             *)
Envs == [i \in 1..MaxEnvs |-> [start |-> 0, stop |-> 14 * (MaxEnvs + 1 - i)]]

RunGenes == <<NumGene("x", 0, Tick, TRUE)>>

RunConfigs ==
    { [threads |-> c, generation |-> n, popSize |-> p, elitism |-> e,
       mutationRate |-> 100, envs |-> SubSeq(Envs, 1, m),
       genes |-> RunGenes, stratOpts |-> [x |-> 0]] :
        c \in 1..MaxThreads, n \in 0..MaxGeneration, p \in 1..MaxPopSize,
        e \in 0..(MaxPopSize - 1), m \in 1..MaxEnvs }

Init ==
    /\ opts \in {c \in RunConfigs :
                    /\ c.elitism < c.popSize
                    /\ c.generation * c.popSize * Len(c.envs) <= MaxTrials}
    /\ pc = "build"
    /\ gen = 0
    /\ generation = <<>>
    /\ RunUntouched
    /\ PureUntouched
    /\ rankList = <<>> /\ rankPrev = <<>> /\ rankCount = 0

Next ==
    \/ BuildGeneration
    \/ Finish
    \/ ScheduleGeneration
    \/ \E id \in DOMAIN tasks : TaskStart(id)
    \/ \E id \in DOMAIN tasks : TaskSkip(id)
    \/ \E id \in DOMAIN tasks : InitOk(id)
    \/ \E id \in DOMAIN tasks : StartOk(id)
    \/ \E id \in DOMAIN tasks : StopOk(id)
    \/ \E id \in DOMAIN tasks : TrialThrow(id)
    \/ \E id \in DOMAIN tasks : CatchStopDone(id)
    \/ RankGeneration
    \/ WriteCheckpoint
    \/ FatalInBuild
    \/ FatalInSchedule
    \/ FatalInRank
    \/ FatalInCheckpoint

Spec == Init /\ [][Next]_vars

(* a step of a task of the pool *)
PoolStep ==
    \E id \in DOMAIN tasks :
        \/ TaskStart(id) \/ TaskSkip(id) \/ InitOk(id) \/ StartOk(id)
        \/ StopOk(id) \/ TrialThrow(id) \/ CatchStopDone(id)

(* a step of the loop: it goes on, or throws *)
LoopStep ==
    \/ FatalInBuild \/ FatalInSchedule \/ FatalInRank \/ FatalInCheckpoint
    \/ BuildGeneration \/ ScheduleGeneration \/ RankGeneration
    \/ WriteCheckpoint \/ Finish

(* The engine's calls settle and the event loop runs the continuations     *)
(* that are ready: a task that can step does, and so does the loop.        *)
SpecFair == Spec /\ WF_vars(PoolStep) /\ WF_vars(LoopStep)

----------------------------------------------------------------------------
(* Claims about the pool *)

(* C1: at every instant at most opts.threads tasks are executing           *)
(* (started and not settled), and every executing task belongs to the      *)
(* generation the loop is at: no task of an earlier generation is still    *)
(* executing when a later one's tasks start.                               *)
C1_ConcurrencyBound ==
    /\ Cardinality(Executing) <= opts.threads
    /\ \A id \in Executing : id[1] = gen

(* the second generation's pool is full and a task waits *)
C1_Witness ==
    /\ gen = 1
    /\ Cardinality(Executing) = opts.threads
    /\ waiting # <<>>

(* the task of every individual of generation g has settled *)
AllSettled(g, gn) ==
    \A k \in DOMAIN g :
        /\ <<gn, g[k].name>> \in DOMAIN tasks
        /\ tasks[<<gn, g[k].name>>].pc \in SettledPcs

RecordsOf(g) == {<<g[k].name, g[k].fitnesses>> : k \in DOMAIN g}

LastFitness(t) == t.fitnesses[Len(t.fitnesses)]

(* C2: a trial that throws in init, start or stop raises nothing to the    *)
(* caller and leaves the loop where it is; while the generation is awaited *)
(* and ranked, the last record of every individual whose task failed is    *)
(* the sentinel; a ranked generation has at least one record for every     *)
(* individual; and an awaited generation is eventually ranked and          *)
(* checkpointed, or ended by an error that is not a trial's.               *)
C2_TrialFailureIsolation ==
    /\ [](pc \in {"await", "ranked"} =>
            \A k \in DOMAIN generation :
                LET id == <<gen, generation[k].name>>
                IN  /\ (id \in DOMAIN tasks /\ tasks[id].pc \in {"failstop", "rejected"})
                          => /\ generation[k].fitnesses # <<>>
                             /\ LastFitness(generation[k]) = SentinelFitness
                    /\ pc = "ranked" => Len(generation[k].fitnesses) >= 1)
    /\ [][(\E id \in DOMAIN tasks :
              /\ id \in DOMAIN tasks'
              /\ tasks[id].pc \notin {"failstop", "rejected"}
              /\ tasks'[id].pc \in {"failstop", "rejected"})
            => (pc' = pc /\ raised' = raised /\ gen' = gen)]_vars
    /\ (pc = "await") ~> (Len(checkpoints) > gen \/ pc = "build" \/ raised # <<>>)

(* a generation in which one task failed and another succeeded is ranked *)
C2_Witness ==
    /\ pc = "ranked"
    /\ \E id \in DOMAIN tasks : id[1] = gen /\ tasks[id].pc = "rejected"
    /\ \E id \in DOMAIN tasks : id[1] = gen /\ tasks[id].pc = "resolved"

C4_Elitism ==
    \A j \in DOMAIN elites :
        \E k \in DOMAIN generation :
            /\ generation[k].name = elites[j].name
            /\ generation[k].stratOpts = elites[j].stratOpts
            /\ elites[j].hasRunned
                  => /\ elites[j].name \notin calls
                     /\ generation[k].fitnesses = elites[j].fitnesses

(* the second generation is ranked and holds an elite that had run *)
C4_Witness ==
    /\ pc = "ranked"
    /\ gen = 1
    /\ opts.elitism >= 1
    /\ \E j \in DOMAIN elites : elites[j].hasRunned

(* the individuals of the generation the loop is at whose task has started *)
StartedNames ==
    {generation[k].name : k \in
        {i \in DOMAIN generation :
            /\ <<gen, generation[i].name>> \in DOMAIN tasks
            /\ tasks[<<gen, generation[i].name>>].pc # "waiting"}}

(* C5: nothing is raised unless the run has failed; when it has, stop()    *)
(* was requested on every individual of the current generation whose task  *)
(* had started, the caller got exactly one error, the wrapped one, the     *)
(* errors of the stop calls went to the log only, and from then on no      *)
(* population is built, no task is added and the loop stays ended.         *)
C5_FatalFailure ==
    /\ [](pc # "failed" => raised = <<>> /\ stopRequested = {})
    /\ [](pc = "failed" =>
            /\ Len(raised) = 1
            /\ raised[1].message = "Problem during genetic optimization"
            /\ raised[1].phase \in {"build", "schedule", "rank", "checkpoint"}
            /\ StartedNames \subseteq stopRequested
            /\ logged \subseteq stopRequested)
    /\ [][pc = "failed" =>
            /\ pc' = "failed"
            /\ built' = built
            /\ gen' = gen
            /\ raised' = raised
            /\ checkpoints' = checkpoints
            /\ DOMAIN tasks' = DOMAIN tasks
            /\ StopTargets(generation') = StopTargets(generation)]_vars

(* the add of a task threw while earlier tasks were running, and a stop    *)
(* call's error was logged                                                 *)
C5_Witness ==
    /\ pc = "failed"
    /\ raised[1].phase = "schedule"
    /\ Executing # {}
    /\ logged # {}

(* C6: checkpoints are written one per generation, keyed 0, 1, ... in      *)
(* order; a population is built only when the checkpoints of all earlier   *)
(* generations are written; a run that ends without error has written      *)
(* opts.generation checkpoints; with opts.generation = 0 nothing is built  *)
(* or scheduled; every run ends, done or failed.                           *)
C6_GenerationsInOrder ==
    /\ [](/\ Len(checkpoints) = gen
          /\ \A i \in DOMAIN checkpoints : checkpoints[i].index = i - 1
          /\ built \in {gen, gen + 1}
          /\ (pc \in {"schedule", "await", "ranked"} => built = gen + 1)
          /\ (pc \in {"build", "done"} => built = gen)
          /\ (pc = "done" => gen = opts.generation /\ PoolIdle)
          /\ (opts.generation = 0 => built = 0 /\ tasks = <<>> /\ generation = <<>>))
    /\ <>(pc = "done" \/ pc = "failed")

(* a run of two generations is done *)
C6_Witness ==
    /\ pc = "done"
    /\ opts.generation = 2
    /\ Len(checkpoints) = 2
    /\ built = 2

(* the records the logged trials of an individual give, each trial's       *)
(* fitness computed with the window of its own environment                 *)
RecordsFromTrials(name) ==
    [j \in DOMAIN trials[name] |->
        IF trials[name][j].threw THEN SentinelFitness
        ELSE calcFitness(trials[name][j].outcome, opts.envs[trials[name][j].env])]

(* C10: the records of every individual of a ranked generation are those   *)
(* its own trials give, whatever the order in which the pool started and   *)
(* completed the tasks, and so are the checkpoints written.                *)
C10_CompletionOrderIndependent ==
    /\ pc = "ranked" =>
          \A k \in DOMAIN generation :
              generation[k].fitnesses = RecordsFromTrials(generation[k].name)
    /\ \A c \in DOMAIN checkpoints :
          \A k \in DOMAIN checkpoints[c].gen :
              \A t \in DOMAIN generation :
                  (generation[t].name = checkpoints[c].gen[k].name
                   /\ Len(generation[t].fitnesses) = Len(checkpoints[c].gen[k].fitness))
                      => checkpoints[c].gen[k].fitness
                            = RecordsFromTrials(generation[t].name)

(* the records of the individual called name in generation g *)
FitnessesOf(g, name) ==
    IF IndexOf(g, name) = 0 THEN <<>> ELSE g[IndexOf(g, name)].fitnesses

(* one step of the run, seen from task id: the engine calls come as init,  *)
(* start, stop for environment 1, one record, then init, start, stop for   *)
(* environment 2, and so on; flush is set for the first environment only;  *)
(* and the individual gets a record from nothing but the push after stop   *)
(* or the catch                                                            *)
TaskCallsInOrder(id) ==
    IF id \notin DOMAIN tasks
    THEN /\ tasks'[id].pc \in {"waiting", "skip", "init"}
         /\ tasks'[id].pc = "init" => tasks'[id].i = 1 /\ tasks'[id].flush
    ELSE LET a == tasks[id]
             b == tasks'[id]
             before == FitnessesOf(generation, id[2])
             after == FitnessesOf(generation', id[2])
             pushedOne == Len(after) = Len(before) + 1
                          /\ SubSeq(after, 1, Len(before)) = before
         IN  /\ (b.pc = "init" /\ a # b) =>
                   \/ a.pc = "waiting" /\ b.i = 1 /\ b.flush /\ after = before
                   \/ a.pc = "stop" /\ b.i = a.i + 1 /\ ~b.flush /\ pushedOne
             /\ (b.pc = "start" /\ a # b) =>
                   a.pc = "init" /\ b.i = a.i /\ b.flush = a.flush /\ after = before
             /\ (b.pc = "stop" /\ a # b) =>
                   a.pc = "start" /\ b.i = a.i /\ b.flush = a.flush /\ after = before
             /\ (b.pc = "resolved" /\ a # b) =>
                   \/ a.pc = "skip" /\ after = before
                   \/ a.pc = "stop" /\ a.i = Len(opts.envs) /\ pushedOne
             /\ b.pc \in {"init", "start", "stop"} =>
                   /\ b.i \in 1..Len(opts.envs)
                   /\ b.flush = (b.i = 1)
                   /\ Len(after) >= b.i - 1
             /\ (after # before /\ IndexOf(generation', id[2]) # 0) =>
                   /\ pushedOne
                   /\ a.pc \in {"init", "start", "stop"}
                   /\ a.pc # "stop" => b.pc \in {"failstop", "rejected"}

(* the record pushed after the stop of environment k is the fitness of     *)
(* that trial over the window of environment k                             *)
RecordIsForEnvironment(id) ==
    (/\ id \in DOMAIN tasks
     /\ tasks[id].pc = "stop"
     /\ tasks'[id].pc \in {"init", "resolved"}) =>
        LET after == FitnessesOf(generation', id[2])
            trial == trials'[id[2]][Len(trials'[id[2]])]
        IN  /\ trial.env = tasks[id].i
            /\ after[Len(after)] = calcFitness(trial.outcome, opts.envs[tasks[id].i])

(* C11: within one individual's task the engine is called init, start,     *)
(* stop for each environment in array order, one record is appended after  *)
(* each stop before anything is done for the next environment, flush is    *)
(* true for the first environment only, and the k-th record the task       *)
(* appends is computed for environment k.                                  *)
C11_TaskPipeline ==
    [][\A id \in DOMAIN tasks' : TaskCallsInOrder(id) /\ RecordIsForEnvironment(id)]_vars

(* aggregate total fitness of entry k of a checkpoint *)
EntryTotal(cp, k) == total([fitnesses |-> cp.gen[k].fitness])

(* C12: every checkpoint lists each individual of its generation exactly   *)
(* once, by non-increasing aggregate total fitness; max is the aggregate   *)
(* of the first entry, min that of the last, and min <= mean <= max.       *)
C12_CheckpointConsistent ==
    /\ \A c \in DOMAIN checkpoints :
          LET cp == checkpoints[c]
              n == Len(cp.gen)
          IN  /\ n = opts.popSize
              /\ \A j, k \in 1..n : cp.gen[j].name = cp.gen[k].name => j = k
              /\ \A k \in 1..(n - 1) : FracLeq(EntryTotal(cp, k + 1), EntryTotal(cp, k))
              /\ FracEq(cp.result.max, EntryTotal(cp, 1))
              /\ FracEq(cp.result.min, EntryTotal(cp, n))
              /\ FracLeq(cp.result.min, cp.result.mean)
              /\ FracLeq(cp.result.mean, cp.result.max)
    /\ (pc = "build" /\ checkpoints # <<>>) =>
          LET cp == checkpoints[Len(checkpoints)]
          IN  /\ Len(cp.gen) = Len(generation)
              /\ \A k \in DOMAIN generation :
                    /\ cp.gen[k].name = generation[k].name
                    /\ cp.gen[k].fitness = generation[k].fitnesses
                    /\ cp.gen[k].config = generation[k].stratOpts

(* a checkpoint of three individuals whose worst is below its mean, and    *)
(* its mean below its best                                                 *)
C12_Witness ==
    \E c \in DOMAIN checkpoints :
        /\ Len(checkpoints[c].gen) = 3
        /\ FracLess(checkpoints[c].result.min, checkpoints[c].result.mean)
        /\ FracLess(checkpoints[c].result.mean, checkpoints[c].result.max)

----------------------------------------------------------------------------
(* SpecInvalid: runs started with a configuration that breaks              *)
(* elitism < popSize or has no gene.  Nothing in lines 259-446 looks at    *)
(* either, so the run is the same loop.                                    *)

InvalidConfigs ==
    { c \in RunConfigs \cup {[c EXCEPT !.genes = <<>>] : c \in RunConfigs} :
        /\ c.genes = <<>> \/ c.elitism >= c.popSize
        /\ c.generation * c.popSize * Len(c.envs) <= MaxTrials }

InitInvalid ==
    /\ opts \in InvalidConfigs
    /\ pc = "build"
    /\ gen = 0
    /\ generation = <<>>
    /\ RunUntouched
    /\ PureUntouched
    /\ rankList = <<>> /\ rankPrev = <<>> /\ rankCount = 0

SpecInvalid == InitInvalid /\ [][Next]_vars

(* C13: a run started with no gene, or with elitism >= popSize, fails when *)
(* its generation is built: no task is ever added, no engine is called,    *)
(* no checkpoint is written, and the run does not end normally.            *)
C13_InvalidConfigFailsAtBuild ==
    /\ tasks = <<>>
    /\ calls = {}
    /\ checkpoints = <<>>
    /\ pc \in {"build", "failed"} \/ (pc = "done" /\ opts.generation = 0)

(* C14: every generation handed to the queue holds an individual with the  *)
(* run's baseline stratOpts unchanged: individual 0 in generation 0, also  *)
(* once its trials are done, and some individual in every later            *)
(* generation.                                                             *)
C14_BaselineInEveryGeneration ==
    pc \in {"schedule", "await", "ranked"} =>
        /\ \E k \in DOMAIN generation : generation[k].stratOpts = opts.stratOpts
        /\ gen = 0 =>
              \E k \in DOMAIN generation :
                  /\ generation[k].name = <<0, 0>>
                  /\ generation[k].stratOpts = opts.stratOpts
                  /\ pc = "schedule" => k = 1

----------------------------------------------------------------------------
(* SpecFitness: the record of lines 185-203 computed for two trials whose  *)
(* inputs differ in one place                                              *)

MaxProfit == 2       \* reported currentProfit lies in -MaxProfit..MaxProfit
MaxSharpe == 5       \* the sharpeRatio of line 190 lies in -1..MaxSharpe

(* the inputs of one trial, in units: percentTradeWin and tradeFrequency   *)
(* in halves, sharpeRatio in whole numbers, so that line 202 is exact      *)
FitnessInputs ==
    [currentProfit : (-MaxProfit * Unit)..(MaxProfit * Unit),
     percentTradeWin : {0, Unit \div 2, Unit},
     sharpeRaw : {k * Unit : k \in -1..MaxSharpe},
     tradeFrequency : {0, Unit \div 2, Unit}]

FitnessInputKeys == {"currentProfit", "percentTradeWin", "sharpeRaw", "tradeFrequency"}

(* b is a with the input called key increased *)
IncreasedIn(a, b, key) ==
    /\ a[key] < b[key]
    /\ \A k \in FitnessInputKeys \ {key} : a[k] = b[k]

FitnessOfInputs(in) ==
    FitnessFrom(in.currentProfit, in.percentTradeWin, in.sharpeRaw, in.tradeFrequency)

InitFitness ==
    /\ \E a, b \in FitnessInputs : \E key \in FitnessInputKeys :
          /\ IncreasedIn(a, b, key)
          /\ fit = [a |-> a, b |-> b, key |-> key, computed |-> FALSE,
                    fa |-> SentinelFitness, fb |-> SentinelFitness]
    /\ tour = <<>> /\ cross = <<>>
    /\ opts = [popSize |-> 0] /\ pc = "fitness-only" /\ gen = 0 /\ generation = <<>>
    /\ RunUntouched
    /\ rankList = <<>> /\ rankPrev = <<>> /\ rankCount = 0

ComputeFitness ==
    /\ ~fit.computed
    /\ fit' = [fit EXCEPT !.computed = TRUE,
                          !.fa = FitnessOfInputs(fit.a),
                          !.fb = FitnessOfInputs(fit.b)]
    /\ UNCHANGED <<breedVars, runVars, rankVars, tour, cross>>

NextFitness == ComputeFitness

SpecFitness == InitFitness /\ [][NextFitness]_vars

(* C15: the total never decreases when one input of the trial is           *)
(* increased and the others are held, whatever the reported currentProfit. *)
C15_TotalMonotone ==
    fit.computed => fit.fa.total <= fit.fb.total

(* the one increase that is scored lower: currentProfit raised to exactly  *)
(* 0 from a value above -1                                                 *)
RaisedToZero ==
    /\ fit.key = "currentProfit"
    /\ fit.b.currentProfit = 0
    /\ fit.a.currentProfit > -Unit

(* C15, amended: the total never decreases when one input is increased and *)
(* the others are held, unless currentProfit is raised to exactly 0 from a *)
(* value above -1.                                                         *)
C15_TotalMonotoneOffZero ==
    (fit.computed /\ ~RaisedToZero) => fit.fa.total <= fit.fb.total

(* currentProfit raised across 0, from a loss to a gain, and the total     *)
(* with it; and a sharpeRatio raised above its clamp, the total unchanged  *)
C15_Witness ==
    /\ fit.computed
    /\ \/ /\ fit.key = "currentProfit"
          /\ fit.a.currentProfit < 0 /\ fit.b.currentProfit > 0
          /\ fit.fa.total < fit.fb.total
       \/ /\ fit.key = "sharpeRaw"
          /\ fit.a.sharpeRaw >= 4 * Unit
          /\ fit.fa.total = fit.fb.total

----------------------------------------------------------------------------
(* SpecElite: runs of two generations that carry one elite over, with      *)
(* every environment and one task at a time                                *)

EliteConfigs ==
    { c \in RunConfigs :
        /\ c.threads = 1
        /\ c.generation = 2
        /\ c.popSize = 2
        /\ c.elitism = 1
        /\ Len(c.envs) = MaxEnvs }

InitElite ==
    /\ opts \in EliteConfigs
    /\ pc = "build"
    /\ gen = 0
    /\ generation = <<>>
    /\ RunUntouched
    /\ PureUntouched
    /\ rankList = <<>> /\ rankPrev = <<>> /\ rankCount = 0

SpecElite == InitElite /\ [][Next]_vars

(* C16: with elitism >= 1 the max of the checkpoint of generation g + 1    *)
(* is never below the max of the checkpoint of generation g.               *)
C16_BestNeverDecreases ==
    opts.elitism >= 1 =>
        \A c \in 1..(Len(checkpoints) - 1) :
            FracLeq(checkpoints[c].result.max, checkpoints[c + 1].result.max)

(* C17: every individual holds at most opts.envs.length records, and one   *)
(* whose hasRunned is true holds exactly that many, none the sentinel of   *)
(* the catch; elites carried over after a failed trial included.           *)
C17_RecordCount ==
    \A k \in DOMAIN generation :
        /\ Len(generation[k].fitnesses) <= Len(opts.envs)
        /\ generation[k].hasRunned = TRUE =>
              /\ Len(generation[k].fitnesses) = Len(opts.envs)
              /\ SentinelFitness \notin Range(generation[k].fitnesses)

----------------------------------------------------------------------------
(* SpecTwoRuns: a second call of Optimizer.genetic in the same process.    *)
(* Optimizer.pqueue is static (line 335): the other run's getQueue (line   *)
(* 352) calls clear() on the queue this run is waiting on, then installs   *)
(* its own, in which its own tasks live.                                   *)

(* Optimizer.getQueue called by the other run (lines 336-340) while tasks  *)
(* of this run wait: clear() drops them, and their promises never settle   *)
OtherRunGetQueue ==
    /\ waiting # <<>>
    /\ waiting' = <<>>
    /\ UNCHANGED <<opts, pc, gen, generation, tasks, envBacktest, calls, trials,
                   loopVars, rankVars, pureVars>>

NextTwoRuns ==
    \/ Next
    \/ OtherRunGetQueue

SpecTwoRuns == Init /\ [][NextTwoRuns]_vars

(* C18: with another run of Optimizer.genetic in the process, every task   *)
(* of this run is still executed: when onIdle returns and the generation   *)
(* is ranked, the task of every individual has settled and every           *)
(* individual has at least one record.                                     *)
C18_RunsDoNotDisturb ==
    (pc = "ranked" \/ (pc = "await" /\ PoolIdle)) =>
        /\ AllSettled(generation, gen)
        /\ \A k \in DOMAIN generation : generation[k].fitnesses # <<>>

----------------------------------------------------------------------------
(* SpecTournament: one call of tournamentSelection (lines 107-125), draw   *)
(* by draw.  tour.generation is the argument, tour.traders the indexes of  *)
(* the participants pushed so far, tour.trader the index last drawn,       *)
(* tour.j the counter of line 119, tour.draws the number of calls of       *)
(* randomBetween, tour.result the list returned; tour.given is the         *)
(* argument as it was at the call.                                         *)

MaxTourLen == 3      \* longest generation a tournament is drawn from

(* fitness histories of the individuals: <<-1, 1>> ties with <<0>> *)
TourFitnesses == { <<FitRec(0)>>, <<FitRec(Unit)>>, <<FitRec(-Unit), FitRec(Unit)>> }

(* checkSameFitness (lines 108-113) *)
checkSameFitness(indivs, fitness) ==
    \E k \in DOMAIN indivs : FracEq(total(indivs[k]), fitness)

(* the individuals at the indexes picks of g *)
Picked(g, picks) == [k \in DOMAIN picks |-> g[picks[k]]]

(* j++ < generation.length (line 120) with the bound dropped *)
MayRedrawAlways(j, n) == TRUE

(* j++ < generation.length (line 120) *)
MayRedraw(j, n) == j < n

InitTournament ==
    /\ \E n \in 1..MaxTourLen : \E f \in [1..n -> TourFitnesses] :
          LET g == [i \in 1..n |-> RankIndiv(i - 1, f[i])]
          IN  tour = [generation |-> g, given |-> g, traders |-> <<>>, trader |-> 0,
                      j |-> 0, draws |-> 0, result |-> <<>>, pc |-> "for"]
    /\ fit = <<>> /\ cross = <<>>
    /\ opts = [popSize |-> 0] /\ pc = "tournament-only" /\ gen = 0 /\ generation = <<>>
    /\ RunUntouched
    /\ rankList = <<>> /\ rankPrev = <<>> /\ rankCount = 0

(* line 118: a participant is drawn *)
TourDraw ==
    /\ tour.pc = "for"
    /\ Len(tour.traders) < Participants
    /\ \E d \in DOMAIN tour.generation :
          tour' = [tour EXCEPT !.trader = d, !.j = 0, !.draws = @ + 1, !.pc = "while"]
    /\ UNCHANGED <<breedVars, runVars, rankVars, fit, cross>>

(* lines 120-121: the test holds and the participant is drawn again *)
TourRedraw ==
    /\ tour.pc = "while"
    /\ MayRedraw(tour.j, Len(tour.generation))
    /\ checkSameFitness(Picked(tour.generation, tour.traders),
                        total(tour.generation[tour.trader]))
    /\ \E d \in DOMAIN tour.generation :
          tour' = [tour EXCEPT !.trader = d, !.j = @ + 1, !.draws = @ + 1]
    /\ UNCHANGED <<breedVars, runVars, rankVars, fit, cross>>

(* lines 120 and 123: the test fails and the participant is pushed *)
TourPush ==
    /\ tour.pc = "while"
    /\ ~(/\ MayRedraw(tour.j, Len(tour.generation))
         /\ checkSameFitness(Picked(tour.generation, tour.traders),
                             total(tour.generation[tour.trader])))
    /\ tour' = [tour EXCEPT !.traders = Append(@, tour.trader), !.j = @ + 1, !.pc = "for"]
    /\ UNCHANGED <<breedVars, runVars, rankVars, fit, cross>>

(* line 125: the two best of the participants are returned *)
TourReturn ==
    /\ tour.pc = "for"
    /\ Len(tour.traders) = Participants
    /\ tour' = [tour EXCEPT !.result = tournamentSelection(tour.generation, tour.traders),
                            !.pc = "returned"]
    /\ UNCHANGED <<breedVars, runVars, rankVars, fit, cross>>

NextTournament ==
    \/ TourDraw
    \/ TourRedraw
    \/ TourPush
    \/ TourReturn

SpecTournament == InitTournament /\ [][NextTournament]_vars

(* C19: tournamentSelection on a non-empty generation makes at most        *)
(* 4 * (1 + generation.length) draws and can always go on until it         *)
(* returns (a draw or the return after a push, a re-draw or a push after   *)
(* a draw);                                                                *)
(* it returns two individuals of the generation, the first at least as fit *)
(* as the second and both at least as fit as the two other participants;   *)
(* the generation list is as it was.                                       *)
C19_TournamentResult ==
    /\ tour.draws <= Participants * (1 + Len(tour.generation))
    /\ tour.pc = "for" => Len(tour.traders) <= Participants
    /\ tour.pc = "while" =>
          /\ tour.trader \in DOMAIN tour.generation
          /\ Len(tour.traders) < Participants
          /\ tour.j <= tour.draws
    /\ tour.generation = tour.given
    /\ tour.pc = "returned" =>
          /\ Len(tour.result) = 2
          /\ \A k \in 1..2 : tour.result[k] \in Range(tour.generation)
          /\ FracLeq(total(tour.result[2]), total(tour.result[1]))
          /\ \E a, b \in DOMAIN tour.traders :
                /\ a # b
                /\ tour.generation[tour.traders[a]] = tour.result[1]
                /\ tour.generation[tour.traders[b]] = tour.result[2]
                /\ \A c \in DOMAIN tour.traders \ {a, b} :
                      FracLeq(total(tour.generation[tour.traders[c]]),
                              total(tour.result[2]))

(* a tournament over three individuals of one fitness that used every      *)
(* draw it may and returned                                                *)
C19_Witness ==
    /\ tour.pc = "returned"
    /\ Len(tour.generation) = 3
    /\ \A k \in DOMAIN tour.generation :
          FracEq(total(tour.generation[k]), total(tour.generation[1]))
    /\ tour.draws = 1 + (Participants - 1) * (1 + Len(tour.generation))

(* C20: the two parents tournamentSelection returns from a ranked          *)
(* generation of at least two individuals are two different individuals.   *)
C20_ParentsDiffer ==
    (/\ tour.pc = "returned"
     /\ Len(tour.generation) >= 2
     /\ generationResort(tour.generation) = tour.generation) =>
        tour.result[1].name # tour.result[2].name

----------------------------------------------------------------------------
(* Claims about what breeding leaves and makes (Spec) *)

(* the individual was created for generation gn (its name says so) *)
CreatedIn(t, gn) == t.name[1] = gn

(* C21: when a generation is bred, every individual of the old generation  *)
(* that is still there (the parents kept as elites) has the genome, the    *)
(* records and the hasRunned it had, and every new individual, made by     *)
(* mutate, crossover or sampling, has hasRunned false and no record; the   *)
(* task of an individual created for the generation being run always       *)
(* simulates it.                                                           *)
C21_ParentsUntouchedChildFresh ==
    /\ [][(pc = "build" /\ pc' = "schedule") =>
            \A k \in DOMAIN generation' :
                IF \E j \in DOMAIN generation : generation[j].name = generation'[k].name
                THEN generation'[k] \in Range(generation)
                ELSE /\ CreatedIn(generation'[k], gen)
                     /\ generation'[k].hasRunned = FALSE
                     /\ generation'[k].fitnesses = <<>>]_vars
    /\ [](\A id \in DOMAIN tasks :
            (id[2][1] = id[1] /\ tasks[id].pc # "waiting") => tasks[id].pc # "skip")

(* a second generation is being run whose elite keeps its records while    *)
(* the trial of a child bred from it has been started                      *)
C21_Witness ==
    /\ pc = "await"
    /\ gen = 1
    /\ \E k \in DOMAIN generation :
          /\ CreatedIn(generation[k], 0)
          /\ generation[k].hasRunned = TRUE
          /\ generation[k].fitnesses # <<>>
    /\ \E k \in DOMAIN generation :
          /\ CreatedIn(generation[k], 1)
          /\ <<1, generation[k].name>> \in DOMAIN tasks
          /\ tasks[<<1, generation[k].name>>].pc = "init"

----------------------------------------------------------------------------
(* SpecCrossover: one call of crossover (lines 237-257) on two parents     *)
(* with one numeric gene                                                   *)

MaxGeneValue == 4    \* the gene of the call lies in [0, MaxGeneValue]

(* the gene of the call: integer or real, over [0, MaxGeneValue] *)
CrossGenes ==
    { <<NumGene("x", 0, MaxGeneValue * Tick, TRUE)>>,
      <<NumGene("y", 0, MaxGeneValue * Tick, FALSE)>> }

(* the values a parent can hold for gene g: those on the grid in its       *)
(* domain, whole numbers when integer                                      *)
GeneValues(g) == {v \in g.min..g.max : g.integer => FloorUnit(v) = v}

InitCrossover ==
    /\ \E genes \in CrossGenes : \E a, b \in GeneValues(genes[1]) :
          LET key == genes[1].key
              traderA == createTraderWorker(<<0, 0>>, [k \in {key} |-> a])
              traderB == createTraderWorker(<<0, 1>>, [k \in {key} |-> b])
          IN  cross = [genes |-> genes, traderA |-> traderA, traderB |-> traderB,
                       mutationRate |-> 50, returned |-> FALSE,
                       child |-> traderB.stratOpts]
    /\ fit = <<>> /\ tour = <<>>
    /\ opts = [popSize |-> 0] /\ pc = "crossover-only" /\ gen = 0 /\ generation = <<>>
    /\ RunUntouched
    /\ rankList = <<>> /\ rankPrev = <<>> /\ rankCount = 0

(* crossover returns: the stratOpts of the child *)
ApplyCrossover ==
    /\ ~cross.returned
    /\ \E newOpts \in crossoverOpts(cross.traderA, cross.traderB, cross.genes,
                                    cross.mutationRate) :
          cross' = [cross EXCEPT !.child = newOpts, !.returned = TRUE]
    /\ UNCHANGED <<breedVars, runVars, rankVars, fit, tour>>

NextCrossover == ApplyCrossover

SpecCrossover == InitCrossover /\ [][NextCrossover]_vars

Distance(v, w) == IF v < w THEN w - v ELSE v - w

(* C22: every numeric gene value of a crossover child is traderA's value,  *)
(* traderB's value, or one of the two mutated as mutate does (moved by     *)
(* 0.005 to 0.5 of the range, clamped, floored when integer); so it is     *)
(* within half the range of one parent's value.                            *)
C22_CrossoverNearParents ==
    cross.returned =>
        \A i \in DOMAIN cross.genes :
            LET g == cross.genes[i]
                a == cross.traderA.stratOpts[g.key]
                b == cross.traderB.stratOpts[g.key]
                v == cross.child[g.key]
            IN  /\ v \in {a, b} \cup mutateNumeric(g, a) \cup mutateNumeric(g, b)
                /\ \/ 2 * Distance(v, a) <= g.max - g.min
                   \/ 2 * Distance(v, b) <= g.max - g.min

----------------------------------------------------------------------------
(* Claims about the population handed to the queue (Spec) *)

(* the names of the individuals of g *)
NamesOf(g) == {g[k].name : k \in DOMAIN g}

(* C23: every generation handed to the queue has exactly opts.popSize      *)
(* individuals with pairwise distinct names; an individual is new, named   *)
(* for the generation being run and the place it was pushed at, or an      *)
(* elite, at most opts.elitism of them, kept from the previous generation  *)
(* under the name it was created with.                                     *)
C23_PopulationInvariant ==
    /\ [](pc \in {"schedule", "await", "ranked"} =>
            /\ Len(generation) = opts.popSize
            /\ \A j, k \in DOMAIN generation :
                  generation[j].name = generation[k].name => j = k
            /\ \A k \in DOMAIN generation : generation[k].name[1] <= gen
            /\ Cardinality({k \in DOMAIN generation : ~CreatedIn(generation[k], gen)})
                  <= opts.elitism
            /\ pc = "schedule" =>
                  \A k \in DOMAIN generation :
                      CreatedIn(generation[k], gen) => generation[k].name = <<gen, k - 1>>)
    /\ [][(pc = "build" /\ pc' = "schedule") =>
            \A k \in DOMAIN generation' :
                ~CreatedIn(generation'[k], gen) =>
                    /\ generation'[k].name \in NamesOf(generation)
                    /\ generation'[k].name \in NamesOf(elites')]_vars

(* a second generation handed to the queue: an elite under its name of     *)
(* generation 0 and a child named for generation 1                         *)
C23_Witness ==
    /\ pc = "await"
    /\ gen = 1
    /\ Len(generation) = 2
    /\ \E k \in DOMAIN generation :
          CreatedIn(generation[k], 0) /\ generation[k].fitnesses # <<>>
    /\ \E k \in DOMAIN generation : generation[k].name = <<1, 1>>

====
